---- MODULE Spec2Model ----
(***************************************************************************)
(* SREOutputFormatter (sre_agent/output_formatter.py): the markdown        *)
(* renderer of the SRE multi-agent investigation results.                  *)
(*                                                                         *)
(* A Python str is a sequence of one-character strings; a character        *)
(* outside ASCII is the one-character token "U+<code point>".  A dict is   *)
(* a function whose DOMAIN is the set of its keys (the empty dict is the   *)
(* empty function); an ordered dict of agent results is a sequence of      *)
(* <<name, result>> pairs; an Optional value is a sequence of length 0     *)
(* (None) or 1.                                                            *)
(***************************************************************************)
EXTENDS Integers, Sequences, FiniteSets, TLC

VARIABLES llm_provider, collab, pc, args, frame, output, invoked, returned

vars == <<llm_provider, collab, pc, args, frame, output, invoked, returned>>

(***************************************************************************)
(* Bounds of the model.                                                    *)
(***************************************************************************)
\* The largest metadata["plan_step"] a caller passes.
MaxPlanStep == 2
\* The largest number of entries of agent_results.
MaxAgents == 2
\* The number of render calls that run concurrently on the one instance.
NumCalls == 2

(***************************************************************************)
(* Python str operations.                                                  *)
(***************************************************************************)
DigitChars == <<"0", "1", "2", "3", "4", "5", "6", "7", "8", "9">>

\* str.isdigit() on one ASCII character
Digit == {DigitChars[i] : i \in 1..10}

Whitespace == {" ", "\t", "\n", "\r"}

LowerLetters == <<"a","b","c","d","e","f","g","h","i","j","k","l","m",
                  "n","o","p","q","r","s","t","u","v","w","x","y","z">>

UpperLetters == <<"A","B","C","D","E","F","G","H","I","J","K","L","M",
                  "N","O","P","Q","R","S","T","U","V","W","X","Y","Z">>

IsLower(ch) == \E i \in 1..26 : LowerLetters[i] = ch

IsUpper(ch) == \E i \in 1..26 : UpperLetters[i] = ch

\* str.lower() on one character
ToLower(ch) ==
    IF IsUpper(ch) THEN LowerLetters[CHOOSE i \in 1..26 : UpperLetters[i] = ch]
    ELSE ch

\* str.upper() on one character
ToUpper(ch) ==
    IF IsLower(ch) THEN UpperLetters[CHOOSE i \in 1..26 : LowerLetters[i] = ch]
    ELSE ch

\* str.lower()
Lower(s) == [i \in 1..Len(s) |-> ToLower(s[i])]

\* A cased character (a letter) for str.title()
IsCased(ch) == IsLower(ch) \/ IsUpper(ch)

\* str.title(): a letter that follows a letter is lowered, any other letter
\* is raised.
Title(s) ==
    [i \in 1..Len(s) |->
        IF i > 1 /\ IsCased(s[i - 1]) THEN ToLower(s[i]) ELSE ToUpper(s[i])]

\* str.replace(old, new) for single characters
ReplaceChar(s, old, new) == [i \in 1..Len(s) |-> IF s[i] = old THEN new ELSE s[i]]

\* str.startswith(prefix)
StartsWith(s, prefix) ==
    /\ Len(prefix) <= Len(s)
    /\ SubSeq(s, 1, Len(prefix)) = prefix

\* sub in s
Contains(s, sub) ==
    \E i \in 0..(Len(s) - Len(sub)) : SubSeq(s, i + 1, i + Len(sub)) = sub

\* str.strip(): leading and trailing whitespace removed
Strip(s) ==
    LET keep == {i \in 1..Len(s) : s[i] \notin Whitespace}
    IN  IF keep = {} THEN << >>
        ELSE LET lo == CHOOSE i \in keep : \A j \in keep : i <= j
                 hi == CHOOSE i \in keep : \A j \in keep : j <= i
             IN  SubSeq(s, lo, hi)

\* the least element of a non-empty set of integers
Min(S) == CHOOSE i \in S : \A j \in S : i <= j

\* str.split("\n"): the pieces between the newlines, empty pieces kept;
\* newlines is the set of the places of the newlines from start on
RECURSIVE SplitAt(_, _, _)
SplitAt(s, start, newlines) ==
    IF newlines = {} THEN <<SubSeq(s, start, Len(s))>>
    ELSE LET i == Min(newlines)
         IN  <<SubSeq(s, start, i - 1)>> \o SplitAt(s, i + 1, newlines \ {i})

SplitLines(s) == SplitAt(s, 1, {i \in 1..Len(s) : s[i] = "\n"})

\* "\n".join(parts)
RECURSIVE JoinLines(_)
JoinLines(parts) ==
    IF Len(parts) = 0 THEN << >>
    ELSE IF Len(parts) = 1 THEN parts[1]
    ELSE parts[1] \o <<"\n">> \o JoinLines(Tail(parts))

\* str(i) for an integer
RECURSIVE IntToStr(_)
IntToStr(n) ==
    IF n < 0 THEN <<"-">> \o IntToStr(0 - n)
    ELSE IF n < 10 THEN <<DigitChars[n + 1]>>
    ELSE IntToStr(n \div 10) \o <<DigitChars[(n % 10) + 1]>>

\* dict.get(key, default)
Get(d, key, default) == IF key \in DOMAIN d THEN d[key] ELSE default

\* the dict d restricted to the keys K
Restrict(d, K) == [k \in K |-> d[k]]

(***************************************************************************)
(* The literals of output_formatter.py.                                    *)
(***************************************************************************)
\* "No response provided"
NoResponse == <<"N","o"," ","r","e","s","p","o","n","s","e"," ","p","r","o","v","i","d","e","d">>

\* "# U+1F50D Investigation Results"
InvestigationTitle == <<"#"," ","U+1F50D"," ","I","n","v","e","s","t","i","g","a","t","i","o","n"," ","R","e",
     "s","u","l","t","s">>

\* "**Query:** "
QueryLabel == <<"*","*","Q","u","e","r","y",":","*","*"," ">>

\* "## U+1F3AF Key Findings"
KeyFindingsHeading == <<"#","#"," ","U+1F3AF"," ","K","e","y"," ","F","i","n","d","i","n","g","s">>

\* "### "
SubheadingMark == <<"#","#","#"," ">>

\* "**Runbook Steps Found:**"
RunbookStepsLabel == <<"*","*","R","u","n","b","o","o","k"," ","S","t","e","p","s"," ","F","o","u","n","d",
     ":","*","*">>

\* "- "
Bullet == <<"-"," ">>

\* "## U+1F4CB Next Steps"
NextStepsHeading == <<"#","#"," ","U+1F4CB"," ","N","e","x","t"," ","S","t","e","p","s">>

\* "## U+2705 Investigation Complete"
CompleteHeading == <<"#","#"," ","U+2705"," ","I","n","v","e","s","t","i","g","a","t","i","o","n"," ","C",
     "o","m","p","l","e","t","e">>

\* "All planned investigation steps have been executed."
CompleteSentence == <<"A","l","l"," ","p","l","a","n","n","e","d"," ","i","n","v","e","s","t","i","g","a",
     "t","i","o","n"," ","s","t","e","p","s"," ","h","a","v","e"," ","b","e","e","n"," ",
     "e","x","e","c","u","t","e","d",".">>

\* "runbooks"
RunbooksWord == <<"r","u","n","b","o","o","k","s">>

\* "operational"
OperationalWord == <<"o","p","e","r","a","t","i","o","n","a","l">>

\* "\n\n**User Preferences:**\n"
UserPreferencesLabel == <<"\n","\n","*","*","U","s","e","r"," ","P","r","e","f","e","r","e","n","c","e","s",":",
     "*","*","\n">>

\* "# U+1F4CB Investigation Plan"
PlanTitle == <<"#"," ","U+1F4CB"," ","I","n","v","e","s","t","i","g","a","t","i","o","n"," ","P","l",
     "a","n">>

\* "**Complexity:** "
ComplexityLabel == <<"*","*","C","o","m","p","l","e","x","i","t","y",":","*","*"," ">>

\* "unknown"
UnknownComplexity == <<"u","n","k","n","o","w","n">>

\* "## Investigation Steps"
InvestigationStepsHeading == <<"#","#"," ","I","n","v","e","s","t","i","g","a","t","i","o","n"," ","S","t","e","p",
     "s">>

\* "Standard investigation approach"
DefaultReasoning == <<"S","t","a","n","d","a","r","d"," ","i","n","v","e","s","t","i","g","a","t","i","o",
     "n"," ","a","p","p","r","o","a","c","h">>

\* "## Plan Details"
PlanDetailsHeading == <<"#","#"," ","P","l","a","n"," ","D","e","t","a","i","l","s">>

\* "**Reasoning:** "
ReasoningLabel == <<"*","*","R","e","a","s","o","n","i","n","g",":","*","*"," ">>

\* "**Auto-execute:** "
AutoExecuteLabel == <<"*","*","A","u","t","o","-","e","x","e","c","u","t","e",":","*","*"," ">>

\* "Yes"
Yes == <<"Y","e","s">>

\* "No"
No == <<"N","o">>

\* "## Available Actions"
AvailableActionsHeading == <<"#","#"," ","A","v","a","i","l","a","b","l","e"," ","A","c","t","i","o","n","s">>

\* "- Type U+0060proceedU+0060 or U+0060yesU+0060 to execute the plan"
ActionProceed == <<"-"," ","T","y","p","e"," ","U+0060","p","r","o","c","e","e","d","U+0060"," ","o","r",
     " ","U+0060","y","e","s","U+0060"," ","t","o"," ","e","x","e","c","u","t","e"," ","t",
     "h","e"," ","p","l","a","n">>

\* "- Type U+0060modifyU+0060 to suggest changes"
ActionModify == <<"-"," ","T","y","p","e"," ","U+0060","m","o","d","i","f","y","U+0060"," ","t","o"," ",
     "s","u","g","g","e","s","t"," ","c","h","a","n","g","e","s">>

\* "- Ask specific questions about any step"
ActionAsk == <<"-"," ","A","s","k"," ","s","p","e","c","i","f","i","c"," ","q","u","e","s","t","i",
     "o","n","s"," ","a","b","o","u","t"," ","a","n","y"," ","s","t","e","p">>

\* "bedrock"
DefaultProvider == <<"b","e","d","r","o","c","k">>

\* The text _generate_fallback_summary returns (U+1F4CB, U+1F3AF and U+26A1
\* in its three headings).
FallbackSummary == <<"#","#"," ","U+1F4CB"," ","E","x","e","c","u","t","i","v","e"," ","S","u","m","m","a",
     "r","y","\n","\n","#","#","#"," ","U+1F3AF"," ","K","e","y"," ","I","n","s","i","g",
     "h","t","s","\n","-"," ","*","*","R","o","o","t"," ","C","a","u","s","e","*","*",":",
     " ","I","n","v","e","s","t","i","g","a","t","i","o","n"," ","f","i","n","d","i","n",
     "g","s"," ","r","e","q","u","i","r","e"," ","a","n","a","l","y","s","i","s","\n","-",
     " ","*","*","I","m","p","a","c","t","*","*",":"," ","S","e","r","v","i","c","e"," ",
     "p","e","r","f","o","r","m","a","n","c","e"," ","m","a","y"," ","b","e"," ","a","f",
     "f","e","c","t","e","d","\n","-"," ","*","*","S","e","v","e","r","i","t","y","*","*",
     ":"," ","M","e","d","i","u","m","\n","\n","#","#","#"," ","U+26A1"," ","N","e","x",
     "t"," ","S","t","e","p","s","\n","1","."," ","*","*","I","m","m","e","d","i","a","t",
     "e","*","*"," ","(","<"," ","1"," ","h","o","u","r",")",":"," ","R","e","v","i","e",
     "w"," ","d","e","t","a","i","l","e","d"," ","f","i","n","d","i","n","g","s"," ","b",
     "e","l","o","w","\n","2","."," ","*","*","S","h","o","r","t","-","t","e","r","m","*",
     "*"," ","(","<"," ","2","4"," ","h","o","u","r","s",")",":"," ","E","x","e","c","u",
     "t","e"," ","r","e","c","o","m","m","e","n","d","e","d"," ","r","e","m","e","d","i",
     "a","t","i","o","n"," ","s","t","e","p","s","\n","3","."," ","*","*","L","o","n","g",
     "-","t","e","r","m","*","*"," ","(","<"," ","1"," ","w","e","e","k",")",":"," ","M",
     "o","n","i","t","o","r"," ","s","y","s","t","e","m"," ","m","e","t","r","i","c","s",
     " ","f","o","r"," ","i","m","p","r","o","v","e","m","e","n","t","\n","4","."," ","*",
     "*","F","o","l","l","o","w","-","u","p","*","*",":"," ","S","c","h","e","d","u","l",
     "e"," ","p","o","s","t","-","i","n","c","i","d","e","n","t"," ","r","e","v","i","e",
     "w"," ","i","f"," ","a","p","p","l","i","c","a","b","l","e">>

(***************************************************************************)
(* The collaborators of the formatter: create_llm_with_error_handling,     *)
(* prompt_loader and the LLM client.  collab says which of them raises;    *)
(* none keeps state, so each answers the same way for the same arguments.  *)
(***************************************************************************)
Collaborators == {"ok", "create_raises", "prompts_raise", "invoke_raises"}

\* "You are an SRE assistant."
SystemPromptText == <<"Y","o","u"," ","a","r","e"," ","a","n"," ","S","R","E"," ","a","s","s","i","s","t",
     "a","n","t",".">>

\* "Query: "
UserPromptLabel == <<"Q","u","e","r","y",":"," ">>

\* prompt_loader.get_executive_summary_prompts(query=..., results_text=...)
GetExecutiveSummaryPrompts(query, results_text) ==
    <<SystemPromptText, UserPromptLabel \o query \o <<"\n">> \o results_text>>

\* "## Summary"
SummaryHeading == <<"#","#"," ","S","u","m","m","a","r","y">>

\* response.content of llm.invoke(messages): a text the messages determine,
\* with whitespace around it
LLMResponseContent(messages) ==
    LET user == messages[Len(messages)].content
    IN  <<" ", "\n">> \o SummaryHeading \o <<"\n">> \o SplitLines(user)[1]
        \o <<"\n", "(">> \o IntToStr(Len(user)) \o <<")", "\n", " ">>

(***************************************************************************)
(* SREOutputFormatter.__init__                                             *)
(***************************************************************************)
\* llm_provider or os.getenv("LLM_PROVIDER", "bedrock"); param and envvar
\* are Optional[str]
ResolveProvider(param, envvar) ==
    IF Len(param) = 1 /\ param[1] # << >> THEN param[1]
    ELSE IF Len(envvar) = 1 THEN envvar[1]
    ELSE DefaultProvider

(***************************************************************************)
(* SREOutputFormatter._extract_steps_from_response                         *)
(***************************************************************************)
\* "U+2022", the bullet glyph
BulletGlyph == <<"U+2022">>

\* the test of lines 57-59 on a stripped line
IsStepLine(line) ==
    /\ line # << >>
    /\ \/ line[1] \in Digit
       \/ StartsWith(line, <<"-">>)
       \/ StartsWith(line, BulletGlyph)

ExtractStepsFromResponse(response) ==
    IF response = << >> THEN << >>
    ELSE LET lines == SplitLines(response)
             stripped == [i \in 1..Len(lines) |-> Strip(lines[i])]
         IN  SelectSeq(stripped, IsStepLine)

(***************************************************************************)
(* SREOutputFormatter.format_investigation_response                        *)
(***************************************************************************)
EmptyDict == << >>

\* plan or metadata.get("investigation_plan", {})
PlanInfo(plan, metadata) ==
    IF Len(plan) = 1 /\ DOMAIN plan[1] # {} THEN plan[1]
    ELSE Get(metadata, "investigation_plan", EmptyDict)

\* CurrentStep without the step from the zero-based index to the position
CurrentStepZeroBased(metadata) == Get(metadata, "plan_step", 0)

\* metadata.get("plan_step", 0) + 1
CurrentStep(metadata) == Get(metadata, "plan_step", 0) + 1

\* len(plan_info.get("steps", []))
TotalSteps(plan_info) == Len(Get(plan_info, "steps", << >>))

\* the header, lines 82-85
HeaderLines(query) == <<InvestigationTitle, << >>, QueryLabel \o query, << >>>>

\* lines 91-93
SummaryLines(executive_summary) ==
    IF executive_summary # << >> THEN <<executive_summary, << >>>> ELSE << >>

\* not result or result == "No response provided"
IsSkipped(result) == result = << >> \/ result = NoResponse

\* agent_name.replace("_", " ").title()
AgentDisplay(agent_name) == Title(ReplaceChar(agent_name, "_", " "))

\* IsRunbookAgent without lower()
IsRunbookAgentCaseSensitive(agent_name) ==
    \/ Contains(agent_name, RunbooksWord)
    \/ Contains(agent_name, OperationalWord)

\* "runbooks" in agent_name.lower() or "operational" in agent_name.lower()
IsRunbookAgent(agent_name) ==
    \/ Contains(Lower(agent_name), RunbooksWord)
    \/ Contains(Lower(agent_name), OperationalWord)

\* clean_step.startswith(("1.", ..., "9."))
StartsWithOrdinal(clean_step) ==
    \E d \in Digit \ {"0"} : StartsWith(clean_step, <<d, ".">>)

\* FormatStep without the test for an ordinal marker
FormatStepAlwaysBullet(step) == Bullet \o Strip(step)

\* lines 118-124
FormatStep(step) ==
    LET clean_step == Strip(step)
    IN  IF StartsWithOrdinal(clean_step) THEN clean_step
        ELSE Bullet \o clean_step

\* the subheading of an agent, line 105
AgentSubheading(agent_name) == SubheadingMark \o AgentDisplay(agent_name)

\* the lines under the subheading of an agent, lines 107-133
AgentBody(agent_name, result) ==
    IF IsRunbookAgent(agent_name)
    THEN LET steps == ExtractStepsFromResponse(result)
         IN  IF steps # << >>
             THEN <<<< >>, RunbookStepsLabel>>
                  \o [i \in 1..Len(steps) |-> FormatStep(steps[i])]
                  \o <<<< >>>>
             ELSE <<Bullet \o result, << >>>>
    ELSE <<Bullet \o result, << >>>>

\* one turn of the loop of line 100
AgentLines(agent_name, result) ==
    IF IsSkipped(result) THEN << >>
    ELSE <<AgentSubheading(agent_name)>> \o AgentBody(agent_name, result)

RECURSIVE AllAgentLines(_)
AllAgentLines(agent_results) ==
    IF agent_results = << >> THEN << >>
    ELSE AgentLines(agent_results[1][1], agent_results[1][2])
         \o AllAgentLines(Tail(agent_results))

\* the section of lines 96-133
KeyFindingsLines(agent_results) ==
    IF agent_results # << >>
    THEN <<KeyFindingsHeading, << >>>> \o AllAgentLines(agent_results)
    ELSE << >>

\* RemainingSteps with the slice taken one step early
RemainingStepsFromPrevious(plan_info, current_step) ==
    LET steps == Get(plan_info, "steps", << >>)
    IN  SubSeq(steps, current_step, Len(steps))

\* plan_info.get("steps", [])[current_step:], for current_step >= 0
RemainingSteps(plan_info, current_step) ==
    LET steps == Get(plan_info, "steps", << >>)
    IN  SubSeq(steps, current_step + 1, Len(steps))

\* f"{i}. {step}"
NumberedLine(i, step) == IntToStr(i) \o <<".", " ">> \o step

\* the section of lines 136-142
NextStepsLines(plan_info, current_step, total_steps) ==
    IF DOMAIN plan_info # {} /\ current_step < total_steps
    THEN LET remaining_steps == RemainingSteps(plan_info, current_step)
         IN  <<NextStepsHeading, << >>>>
             \o [k \in 1..Len(remaining_steps) |->
                    NumberedLine(current_step + k, remaining_steps[k])]
             \o <<<< >>>>
    ELSE << >>

\* the section of lines 145-149
CompleteLines(current_step, total_steps) ==
    IF current_step >= total_steps
    THEN <<CompleteHeading, << >>, CompleteSentence, << >>>>
    ELSE << >>

(***************************************************************************)
(* SREOutputFormatter._generate_executive_summary                          *)
(***************************************************************************)
\* f"**{agent_name}:**\n{result}\n"
FormattedResult(agent_name, result) ==
    <<"*", "*">> \o agent_name \o <<":", "*", "*", "\n">> \o result \o <<"\n">>

RECURSIVE FormattedResults(_)
FormattedResults(agent_results) ==
    IF agent_results = << >> THEN << >>
    ELSE (IF IsSkipped(agent_results[1][2]) THEN << >>
          ELSE <<FormattedResult(agent_results[1][1], agent_results[1][2])>>)
         \o FormattedResults(Tail(agent_results))

\* json.dumps(user_preferences, indent=2, default=str) for a list of dicts
\* {"preference": <text>}
RECURSIVE JsonItems(_)
JsonItems(user_preferences) ==
    IF user_preferences = << >> THEN << >>
    ELSE <<" ", " ", "{", "\n", " ", " ", " ", " ", "\"">>
         \o <<"p", "r", "e", "f", "e", "r", "e", "n", "c", "e">>
         \o <<"\"", ":", " ", "\"">> \o user_preferences[1]["preference"]
         \o <<"\"", "\n", " ", " ", "}">>
         \o (IF Len(user_preferences) > 1 THEN <<",", "\n">> ELSE << >>)
         \o JsonItems(Tail(user_preferences))

JsonDumps(user_preferences) ==
    IF user_preferences = << >> THEN <<"[", "]">>
    ELSE <<"[", "\n">> \o JsonItems(user_preferences) \o <<"\n", "]">>

\* results_text, lines 171-183
ResultsText(agent_results, user_preferences) ==
    JoinLines(FormattedResults(agent_results))
    \o (IF user_preferences # << >>
        THEN UserPreferencesLabel \o JsonDumps(user_preferences) \o <<"\n">>
        ELSE << >>)

\* messages, lines 209-212
Messages(system_prompt, user_prompt) ==
    <<[role |-> "system", content |-> system_prompt],
      [role |-> "user", content |-> user_prompt]>>

\* str(response.content).strip()
SummaryOfResponse(content) == Strip(content)

\* _generate_fallback_summary(query, agent_results)
GenerateFallbackSummary(query, agent_results) == FallbackSummary

(***************************************************************************)
(* SREOutputFormatter.format_plan_approval                                 *)
(***************************************************************************)
\* lines 244-248
PlanHeaderLines(plan, query) ==
    <<PlanTitle, << >>, QueryLabel \o query,
      ComplexityLabel \o Title(Get(plan, "complexity", UnknownComplexity)),
      << >>>>

\* lines 251-257
PlanStepsLines(plan) ==
    LET steps == Get(plan, "steps", << >>)
    IN  IF steps # << >>
        THEN <<InvestigationStepsHeading, << >>>>
             \o [i \in 1..Len(steps) |-> NumberedLine(i, steps[i])]
             \o <<<< >>>>
        ELSE << >>

\* PlanDetailsLines with auto_execute defaulting to True
PlanDetailsLinesAutoDefault(plan) ==
    LET reasoning == Get(plan, "reasoning", DefaultReasoning)
        auto_execute == Get(plan, "auto_execute", TRUE)
    IN  <<PlanDetailsHeading, << >>, ReasoningLabel \o reasoning,
          AutoExecuteLabel \o (IF auto_execute THEN Yes ELSE No), << >>>>

\* lines 260-267
PlanDetailsLines(plan) ==
    LET reasoning == Get(plan, "reasoning", DefaultReasoning)
        auto_execute == Get(plan, "auto_execute", FALSE)
    IN  <<PlanDetailsHeading, << >>, ReasoningLabel \o reasoning,
          AutoExecuteLabel \o (IF auto_execute THEN Yes ELSE No), << >>>>

\* lines 270-275
AvailableActionsLines ==
    <<AvailableActionsHeading, << >>, ActionProceed, ActionModify, ActionAsk, << >>>>

(***************************************************************************)
(* The arguments the callers pass.                                         *)
(***************************************************************************)
\* "Why is checkout slow?"
CheckoutQuery == <<"W","h","y"," ","i","s"," ","c","h","e","c","k","o","u","t"," ","s","l","o","w","?">>

\* "Is the API down?"
ApiQuery == <<"I","s"," ","t","h","e"," ","A","P","I"," ","d","o","w","n","?">>

Queries == {CheckoutQuery, ApiQuery}

\* "runbooks_agent"
RunbooksAgent == <<"r","u","n","b","o","o","k","s","_","a","g","e","n","t">>

\* "RUNBOOKS_db"
UpperRunbooksAgent == <<"R","U","N","B","O","O","K","S","_","d","b">>

\* "runbook_agent"
RunbookAgent == <<"r","u","n","b","o","o","k","_","a","g","e","n","t">>

\* "logs_agent"
LogsAgent == <<"l","o","g","s","_","a","g","e","n","t">>

\* "1. Check CPU\n2. Check DB"
NumberedResult == <<"1","."," ","C","h","e","c","k"," ","C","P","U","\n","2","."," ","C","h","e","c","k",
     " ","D","B">>

\* "Restart guide:\n  - drain node\n10. scale up\n\nU+2022 page oncall\n3. verify "
MixedResult == <<"R","e","s","t","a","r","t"," ","g","u","i","d","e",":","\n"," "," ","-"," ","d","r",
     "a","i","n"," ","n","o","d","e","\n","1","0","."," ","s","c","a","l","e"," ","u","p",
     "\n","\n","U+2022"," ","p","a","g","e"," ","o","n","c","a","l","l","\n","3","."," ",
     "v","e","r","i","f","y"," ">>

\* "No errors in logs"
PlainResult == <<"N","o"," ","e","r","r","o","r","s"," ","i","n"," ","l","o","g","s">>

\* the results an agent of each name gives
ResultsOf(agent_name) ==
    IF agent_name = RunbooksAgent THEN {NumberedResult}
    ELSE IF agent_name = LogsAgent THEN {NoResponse, << >>, PlainResult}
    ELSE {MixedResult}

AgentNames == {RunbooksAgent, UpperRunbooksAgent, RunbookAgent, LogsAgent}

AgentEntries == {<<n, r>> : n \in AgentNames, r \in UNION {ResultsOf(m) : m \in AgentNames}}
                \cap UNION {{<<n, r>> : r \in ResultsOf(n)} : n \in AgentNames}

\* the ordered dicts of at most MaxAgents entries, the keys distinct
AgentResultsInputs ==
    UNION {{ar \in [1..n -> AgentEntries] :
               \A i, j \in 1..n : i # j => ar[i][1] # ar[j][1]} : n \in 0..MaxAgents}

\* "Check CPU", "Check DB", "Check network", "Check logs"
CheckCpu == <<"C","h","e","c","k"," ","C","P","U">>

CheckDb == <<"C","h","e","c","k"," ","D","B">>

CheckNetwork == <<"C","h","e","c","k"," ","n","e","t","w","o","r","k">>

CheckLogs == <<"C","h","e","c","k"," ","l","o","g","s">>

ThreeSteps == <<CheckCpu, CheckDb, CheckNetwork>>

TwoSteps == <<CheckLogs, CheckDb>>

\* "medium"
Medium == <<"m","e","d","i","u","m">>

\* "Latency first"
LatencyFirst == <<"L","a","t","e","n","c","y"," ","f","i","r","s","t">>

\* the plan argument of format_investigation_response: None, {}, a plan
\* without steps, a plan of three steps
PlanInputs ==
    {<< >>, <<EmptyDict>>, <<[complexity |-> Medium]>>,
     <<[steps |-> ThreeSteps, complexity |-> Medium]>>}

\* metadata: plan_step missing or 0..MaxPlanStep, investigation_plan missing
\* or a plan of two steps
MetadataInputs ==
    {Restrict([plan_step |-> s, investigation_plan |-> [steps |-> TwoSteps]], K) :
        s \in 0..MaxPlanStep,
        K \in SUBSET {"plan_step", "investigation_plan"}}

\* "brief answers"
BriefAnswers == <<"b","r","i","e","f"," ","a","n","s","w","e","r","s">>

\* user_preferences: None or one preference
PreferencesInputs == {<< >>, <<[preference |-> BriefAnswers]>>}

NoArgs ==
    [kind |-> "none", query |-> << >>, agent_results |-> << >>,
     metadata |-> EmptyDict, plan |-> << >>, user_preferences |-> << >>]

InvestigationCalls ==
    [kind : {"investigation"}, query : Queries, agent_results : AgentResultsInputs,
     metadata : MetadataInputs, plan : PlanInputs,
     user_preferences : PreferencesInputs]

\* the plan argument of format_plan_approval
ApprovalPlans ==
    {Restrict([steps |-> st, complexity |-> Medium, reasoning |-> LatencyFirst,
               auto_execute |-> ae], K) :
        st \in {<< >>, <<CheckCpu>>, ThreeSteps},
        ae \in BOOLEAN,
        K \in SUBSET {"steps", "complexity", "reasoning", "auto_execute"}}

ApprovalCalls ==
    [kind : {"plan_approval"}, query : Queries, agent_results : {<< >>},
     metadata : {EmptyDict}, plan : {<<p>> : p \in ApprovalPlans},
     user_preferences : {<< >>}]

\* the calls of the concurrent callers
ConcurrentCalls ==
    {a \in InvestigationCalls :
        /\ a.query = CheckoutQuery
        /\ a.agent_results \in {<< >>, <<<<RunbooksAgent, NumberedResult>>,
                                        <<LogsAgent, NoResponse>>>>}
        /\ a.metadata \in {EmptyDict, [plan_step |-> 1]}
        /\ a.plan = <<[steps |-> ThreeSteps, complexity |-> Medium]>>
        /\ a.user_preferences = << >>}
    \cup
    {a \in ApprovalCalls :
        /\ a.query = CheckoutQuery
        /\ a.plan[1] \in {EmptyDict, [steps |-> ThreeSteps, auto_execute |-> TRUE]}}

(***************************************************************************)
(* The three entry points as functions of their arguments and of the       *)
(* collaborators: what a call returns when nothing else runs.              *)
(***************************************************************************)
\* _generate_executive_summary(query, agent_results, metadata, user_preferences)
GenerateExecutiveSummary(a) ==
    IF a.agent_results = << >> THEN << >>
    ELSE IF collab \in {"create_raises", "prompts_raise", "invoke_raises"}
         THEN GenerateFallbackSummary(a.query, a.agent_results)
         ELSE LET prompts == GetExecutiveSummaryPrompts(
                                 a.query,
                                 ResultsText(a.agent_results, a.user_preferences))
              IN  SummaryOfResponse(
                      LLMResponseContent(Messages(prompts[1], prompts[2])))

\* format_investigation_response(query, agent_results, metadata, plan,
\* user_preferences)
InvestigationDocument(a) ==
    LET plan_info == PlanInfo(a.plan, a.metadata)
        current_step == CurrentStep(a.metadata)
        total_steps == TotalSteps(plan_info)
    IN  JoinLines(HeaderLines(a.query)
                  \o SummaryLines(GenerateExecutiveSummary(a))
                  \o KeyFindingsLines(a.agent_results)
                  \o NextStepsLines(plan_info, current_step, total_steps)
                  \o CompleteLines(current_step, total_steps))

\* the output list of format_plan_approval(plan, query)
PlanApprovalLines(plan, query) ==
    PlanHeaderLines(plan, query) \o PlanStepsLines(plan)
    \o PlanDetailsLines(plan) \o AvailableActionsLines

(***************************************************************************)
(* The state: the instance's field, and per render call its position, its  *)
(* arguments, its local variables, its output list, the messages it sent   *)
(* to the LLM and its return value.                                        *)
(***************************************************************************)
NoFrame ==
    [plan_info |-> EmptyDict, current_step |-> 0, total_steps |-> 0,
     llm |-> << >>, messages |-> << >>, executive_summary |-> << >>]

\* the arguments of the constructor: llm_provider and LLM_PROVIDER
\* "anthropic"
Anthropic == <<"a","n","t","h","r","o","p","i","c">>

\* "openai"
OpenAI == <<"o","p","e","n","a","i">>

ProviderParams == {<< >>, <<Anthropic>>}

ProviderEnv == {<< >>, <<OpenAI>>}

InitOf(callers, params, envs) ==
    /\ llm_provider \in {ResolveProvider(p, e) : p \in params, e \in envs}
    /\ collab \in Collaborators
    /\ pc = [c \in callers |-> "idle"]
    /\ args = [c \in callers |-> NoArgs]
    /\ frame = [c \in callers |-> NoFrame]
    /\ output = [c \in callers |-> << >>]
    /\ invoked = [c \in callers |-> << >>]
    /\ returned = [c \in callers |-> << >>]

\* one caller of a formatter made by create_formatter() with LLM_PROVIDER unset
Init == InitOf({1}, {<< >>}, {<< >>})

\* NumCalls callers sharing one formatter
InitConc == InitOf(1..NumCalls, ProviderParams, ProviderEnv)

\* NewOutput with the list kept on the instance and never cleared: a call
\* starts from the lines of a call that has returned
NewOutputKept(c) ==
    IF \E d \in DOMAIN pc : d # c /\ pc[d] = "done"
    THEN output[CHOOSE d \in DOMAIN pc : d # c /\ pc[d] = "done"]
    ELSE << >>

\* NewOutput with the list kept on the instance: a call starts from the
\* lines of a call that is still running
NewOutputShared(c) ==
    IF \E d \in DOMAIN pc : d # c /\ pc[d] \notin {"idle", "done"}
    THEN output[CHOOSE d \in DOMAIN pc : d # c /\ pc[d] \notin {"idle", "done"}]
    ELSE << >>

\* output = [], lines 79 and 241
NewOutput(c) == << >>

\* lines 74-90 and 161-162: the plan position, the header, and the entry into
\* _generate_executive_summary; calls is the set of the arguments passed
FormatInvestigationResponse(c, calls) ==
    /\ pc[c] = "idle"
    /\ \E a \in calls :
          /\ a.kind = "investigation"
          /\ args' = [args EXCEPT ![c] = a]
          /\ LET plan_info == PlanInfo(a.plan, a.metadata)
             IN  frame' = [frame EXCEPT ![c] =
                              [NoFrame EXCEPT !.plan_info = plan_info,
                                              !.current_step = CurrentStep(a.metadata),
                                              !.total_steps = TotalSteps(plan_info)]]
          /\ output' = [output EXCEPT ![c] = NewOutput(c) \o HeaderLines(a.query)]
          /\ pc' = [pc EXCEPT ![c] =
                       IF a.agent_results = << >> THEN "assemble" ELSE "create"]
    /\ UNCHANGED <<llm_provider, collab, invoked, returned>>

\* Fallback with the exception left to propagate to the caller
Propagate(c) ==
    /\ frame' = frame
    /\ pc' = [pc EXCEPT ![c] = "raised"]

\* the except branch, lines 217-220
Fallback(c) ==
    /\ frame' = [frame EXCEPT ![c].executive_summary =
                    GenerateFallbackSummary(args[c].query, args[c].agent_results)]
    /\ pc' = [pc EXCEPT ![c] = "assemble"]

\* line 168: self._create_llm()
CreateLLM(c) ==
    /\ pc[c] = "create"
    /\ IF collab = "create_raises"
       THEN Fallback(c)
       ELSE /\ frame' = [frame EXCEPT ![c].llm = <<llm_provider>>]
            /\ pc' = [pc EXCEPT ![c] = "prompts"]
    /\ UNCHANGED <<llm_provider, collab, args, output, invoked, returned>>

\* lines 171-212: results_text, the prompts and the two messages
GetPrompts(c) ==
    /\ pc[c] = "prompts"
    /\ IF collab = "prompts_raise"
       THEN Fallback(c)
       ELSE /\ LET results_text ==
                       ResultsText(args[c].agent_results, args[c].user_preferences)
                   prompts == GetExecutiveSummaryPrompts(args[c].query, results_text)
               IN  frame' = [frame EXCEPT ![c].messages =
                                Messages(prompts[1], prompts[2])]
            /\ pc' = [pc EXCEPT ![c] = "invoke"]
    /\ UNCHANGED <<llm_provider, collab, args, output, invoked, returned>>

\* InvokeLLM with one retry of a failed invocation
InvokeLLMWithRetry(c) ==
    /\ pc[c] = "invoke"
    /\ invoked' = [invoked EXCEPT ![c] = Append(@, frame[c].messages)]
    /\ IF collab = "invoke_raises"
       THEN IF Len(invoked[c]) = 0
            THEN UNCHANGED <<frame, pc>>
            ELSE Fallback(c)
       ELSE /\ frame' = [frame EXCEPT ![c].executive_summary =
                            SummaryOfResponse(LLMResponseContent(frame[c].messages))]
            /\ pc' = [pc EXCEPT ![c] = "assemble"]
    /\ UNCHANGED <<llm_provider, collab, args, output, returned>>

\* lines 214-215: llm.invoke(messages)
InvokeLLM(c) ==
    /\ pc[c] = "invoke"
    /\ invoked' = [invoked EXCEPT ![c] = Append(@, frame[c].messages)]
    /\ IF collab = "invoke_raises"
       THEN Fallback(c)
       ELSE /\ frame' = [frame EXCEPT ![c].executive_summary =
                            SummaryOfResponse(LLMResponseContent(frame[c].messages))]
            /\ pc' = [pc EXCEPT ![c] = "assemble"]
    /\ UNCHANGED <<llm_provider, collab, args, output, returned>>

\* lines 91-151: the summary, the findings, the plan sections, the join
Assemble(c) ==
    /\ pc[c] = "assemble"
    /\ LET f == frame[c]
           lines == output[c]
                    \o SummaryLines(f.executive_summary)
                    \o KeyFindingsLines(args[c].agent_results)
                    \o NextStepsLines(f.plan_info, f.current_step, f.total_steps)
                    \o CompleteLines(f.current_step, f.total_steps)
       IN  /\ output' = [output EXCEPT ![c] = lines]
           /\ returned' = [returned EXCEPT ![c] = <<JoinLines(lines)>>]
    /\ pc' = [pc EXCEPT ![c] = "done"]
    /\ UNCHANGED <<llm_provider, collab, args, frame, invoked>>

\* lines 239-277; calls is the set of the arguments passed
FormatPlanApproval(c, calls) ==
    /\ pc[c] = "idle"
    /\ \E a \in calls :
          /\ a.kind = "plan_approval"
          /\ args' = [args EXCEPT ![c] = a]
          /\ LET lines == NewOutput(c) \o PlanApprovalLines(a.plan[1], a.query)
             IN  /\ output' = [output EXCEPT ![c] = lines]
                 /\ returned' = [returned EXCEPT ![c] = <<JoinLines(lines)>>]
    /\ pc' = [pc EXCEPT ![c] = "done"]
    /\ UNCHANGED <<llm_provider, collab, frame, invoked>>

Next ==
    \E c \in {1} :
        \/ FormatInvestigationResponse(c, InvestigationCalls)
        \/ CreateLLM(c)
        \/ GetPrompts(c)
        \/ InvokeLLM(c)
        \/ Assemble(c)
        \/ FormatPlanApproval(c, ApprovalCalls)

Spec == Init /\ [][Next]_vars

NextConc ==
    \E c \in 1..NumCalls :
        \/ FormatInvestigationResponse(c, ConcurrentCalls)
        \/ CreateLLM(c)
        \/ GetPrompts(c)
        \/ InvokeLLM(c)
        \/ Assemble(c)
        \/ FormatPlanApproval(c, ConcurrentCalls)

SpecConc == InitConc /\ [][NextConc]_vars

(***************************************************************************)
(* Reading a returned document.                                            *)
(***************************************************************************)
\* the calls of format_investigation_response that have returned
ReturnedInvestigations ==
    {c \in DOMAIN pc : pc[c] = "done" /\ args[c].kind = "investigation"}

\* the calls of format_plan_approval that have returned
ReturnedApprovals ==
    {c \in DOMAIN pc : pc[c] = "done" /\ args[c].kind = "plan_approval"}

\* the lines of the document call c returned
DocumentLines(c) == SplitLines(returned[c][1])

\* the places of a line in a document
Places(lines, line) == {i \in 1..Len(lines) : lines[i] = line}

IsHeading(line) == StartsWith(line, <<"#">>)

NonBlank(line) == line # << >>

\* the non-blank lines between line i and the next heading
SectionBody(lines, i) ==
    LET ends == {j \in (i + 1)..Len(lines) : IsHeading(lines[j])}
        stop == IF ends = {} THEN Len(lines) + 1 ELSE Min(ends)
    IN  SelectSeq(SubSeq(lines, i + 1, stop - 1), NonBlank)


(***************************************************************************)
(* C1                                                                      *)
(***************************************************************************)
\* the text between the header and the Key Findings heading of a document
\* rendered from non-empty agent_results
EmittedSummary(lines) ==
    JoinLines(SubSeq(lines, 5, Min(Places(lines, KeyFindingsHeading)) - 2))

\* call c has non-empty agent_results and a collaborator that raises
Failing(c) ==
    /\ args[c].kind = "investigation"
    /\ args[c].agent_results # << >>
    /\ collab # "ok"

\* C1: when prompt generation, the construction of the LLM client or the LLM
\* invocation raises in a call with non-empty agent_results, the call does
\* not raise, it returns a document, and the executive summary in that
\* document is the fixed fallback text, whatever the query and the agent
\* results.
C1_FallbackOnFailure ==
    \A c \in DOMAIN pc :
        Failing(c) =>
            /\ pc[c] # "raised"
            /\ pc[c] \in {"assemble", "done"} =>
                  frame[c].executive_summary = FallbackSummary
            /\ pc[c] = "done" =>
                  /\ Len(returned[c]) = 1
                  /\ Places(DocumentLines(c), KeyFindingsHeading) # {}
                  /\ EmittedSummary(DocumentLines(c)) = FallbackSummary

C1_Witness ==
    \E c \in ReturnedInvestigations :
        /\ Failing(c)
        /\ collab = "prompts_raise"
        /\ args[c].query = ApiQuery
        /\ Len(args[c].agent_results) = 2

(***************************************************************************)
(* C2                                                                      *)
(***************************************************************************)
AllSkipped(agent_results) ==
    \A i \in 1..Len(agent_results) :
        agent_results[i][2] = << >> \/ agent_results[i][2] = NoResponse

\* C2: when every value of agent_results is empty or "No response provided",
\* the returned document holds neither the Key Findings heading nor the
\* subheading of any agent.
C2_NoKeyFindingsWhenAllSkipped ==
    \A c \in ReturnedInvestigations :
        AllSkipped(args[c].agent_results) =>
            LET lines == DocumentLines(c)
            IN  /\ Places(lines, KeyFindingsHeading) = {}
                /\ \A i \in 1..Len(args[c].agent_results) :
                      Places(lines, AgentSubheading(args[c].agent_results[i][1])) = {}

(***************************************************************************)
(* C3                                                                      *)
(***************************************************************************)
\* exactly one of the two plan sections, chosen by the position in the plan
ExactlyOnePlanSection(lines, metadata, plan_dict) ==
    LET current_step == Get(metadata, "plan_step", 0) + 1
        total_steps == Len(Get(plan_dict, "steps", << >>))
        next == Cardinality(Places(lines, NextStepsHeading))
        complete == Cardinality(Places(lines, CompleteHeading))
    IN  /\ next + complete = 1
        /\ next = 1 <=> current_step < total_steps
        /\ complete = 1 <=> current_step >= total_steps

\* the effective plan as the claim words it: the plan argument whenever one
\* is passed
PlanAsPassed(a) ==
    IF Len(a.plan) = 1 THEN a.plan[1]
    ELSE Get(a.metadata, "investigation_plan", << >>)

\* the effective plan with an empty plan argument counted as not passed
PlanAsPassedNonEmpty(a) ==
    IF Len(a.plan) = 1 /\ DOMAIN a.plan[1] # {} THEN a.plan[1]
    ELSE Get(a.metadata, "investigation_plan", << >>)

RunbookWord == <<"r","u","n","b","o","o","k">>

\* a trimmed line that starts with a digit, "-" or the bullet glyph
LooksLikeStep(line) ==
    /\ Len(line) > 0
    /\ line[1] \in {"0", "1", "2", "3", "4", "5", "6", "7", "8", "9", "-", "U+2022"}

\* the trimmed step-like lines of a result, in input order
StepLikeLines(result) ==
    LET lines == SplitLines(result)
    IN  SelectSeq([i \in 1..Len(lines) |-> Strip(lines[i])], LooksLikeStep)

\* a step-like line as the claim says it is emitted
EmittedStep(line) ==
    IF Len(line) >= 2 /\ line[1] \in {"1", "2", "3", "4", "5", "6", "7", "8", "9"}
       /\ line[2] = "."
    THEN line
    ELSE <<"-", " ">> \o line

\* the lines emitted under the subheading of an agent, the label of the step
\* list left out
EmittedForAgent(lines, agent_name) ==
    LET at == Places(lines, AgentSubheading(agent_name))
        IsResultLine(line) == line # RunbookStepsLabel
    IN  IF at = {} THEN << >>
        ELSE SelectSeq(SectionBody(lines, Min(at)), IsResultLine)

\* the step-like lines of every agent whose name holds word, and nothing
\* else of its result, are emitted under its subheading
StepsEmittedFor(word) ==
    \A c \in ReturnedInvestigations :
        \A i \in 1..Len(args[c].agent_results) :
            LET agent_name == args[c].agent_results[i][1]
                result == args[c].agent_results[i][2]
                steps == StepLikeLines(result)
            IN  (Contains(Lower(agent_name), word) /\ steps # << >>) =>
                    EmittedForAgent(DocumentLines(c), agent_name)
                        = [k \in 1..Len(steps) |-> EmittedStep(steps[k])]

\* C4 as claimed: for every agent whose name contains "runbook" in any case
\* and whose result has a step-like line, exactly the step-like lines are
\* emitted under its subheading, in order, verbatim after "1." to "9." and
\* behind "- " otherwise.
C4_Original == StepsEmittedFor(RunbookWord)

\* C4 as amended: the same for every agent whose name contains "runbooks" in
\* any case.
C4_RunbooksStepsEmitted == StepsEmittedFor(RunbooksWord)

C4_Witness ==
    \E c \in ReturnedInvestigations :
        \E i \in 1..Len(args[c].agent_results) :
            /\ args[c].agent_results[i] = <<UpperRunbooksAgent, MixedResult>>
            /\ Len(EmittedForAgent(DocumentLines(c), UpperRunbooksAgent)) = 4

(***************************************************************************)
(* C5                                                                      *)
(***************************************************************************)
\* C5: when the Next Steps section is emitted it lists the steps of the
\* effective plan at the zero-based indices current_step .. total_steps - 1,
\* in plan order, each once, the step at index j numbered j + 1.
C5_NextStepsAreTheRemainingSteps ==
    \A c \in ReturnedInvestigations :
        LET lines == DocumentLines(c)
            at == Places(lines, NextStepsHeading)
            steps == Get(PlanInfo(args[c].plan, args[c].metadata), "steps", << >>)
            current_step == Get(args[c].metadata, "plan_step", 0) + 1
        IN  at # {} =>
                /\ current_step < Len(steps)
                /\ SectionBody(lines, Min(at))
                     = [k \in 1..(Len(steps) - current_step) |->
                           IntToStr(current_step + k) \o <<".", " ">>
                           \o steps[current_step + k]]

C5_Witness ==
    \E c \in ReturnedInvestigations :
        /\ args[c].plan = <<[steps |-> ThreeSteps, complexity |-> Medium]>>
        /\ args[c].metadata = [plan_step |-> 0]
        /\ Len(SectionBody(DocumentLines(c),
                           Min(Places(DocumentLines(c), NextStepsHeading)))) = 2

(***************************************************************************)
(* C6                                                                      *)
(***************************************************************************)
\* the call of the example
IsExampleCall(a) ==
    /\ a.kind = "investigation"
    /\ a.query = CheckoutQuery
    /\ a.agent_results = <<<<RunbooksAgent, NumberedResult>>, <<LogsAgent, NoResponse>>>>
    /\ a.metadata = [plan_step |-> 0]
    /\ a.plan = <<[steps |-> ThreeSteps, complexity |-> Medium]>>

\* "### Runbooks Agent"
RunbooksAgentSubheading == <<"#","#","#"," ","R","u","n","b","o","o","k","s"," ","A","g","e","n","t">>

\* "### Logs Agent"
LogsAgentSubheading == <<"#","#","#"," ","L","o","g","s"," ","A","g","e","n","t">>

\* "1. Check CPU"
OneCheckCpu == <<"1","."," ","C","h","e","c","k"," ","C","P","U">>

\* "2. Check DB"
TwoCheckDb == <<"2","."," ","C","h","e","c","k"," ","D","B">>

\* "2. Check network"
TwoCheckNetwork == <<"2","."," ","C","h","e","c","k"," ","n","e","t","w","o","r","k">>

\* "3. Check network"
ThreeCheckNetwork == <<"3","."," ","C","h","e","c","k"," ","n","e","t","w","o","r","k">>

\* the example's document but for its Next Steps section, which lists listed
ExampleRenders(listed) ==
    \A c \in ReturnedInvestigations :
        IsExampleCall(args[c]) =>
            LET lines == DocumentLines(c)
            IN  /\ Cardinality(Places(lines, RunbooksAgentSubheading)) = 1
                /\ SectionBody(lines, Min(Places(lines, RunbooksAgentSubheading)))
                     = <<RunbookStepsLabel, OneCheckCpu, TwoCheckDb>>
                /\ Places(lines, LogsAgentSubheading) = {}
                /\ Cardinality(Places(lines, NextStepsHeading)) = 1
                /\ SectionBody(lines, Min(Places(lines, NextStepsHeading))) = listed

\* C6 as claimed: the example's document has a Runbooks Agent subsection with
\* the two numbered lines verbatim, no Logs Agent subsection, and a Next
\* Steps section that lists only "2. Check network".
C6_Original == ExampleRenders(<<TwoCheckNetwork>>)

\* C6 as amended: the same, but the Next Steps section lists the two lines
\* "2. Check DB" and "3. Check network".
C6_ExampleDocument == ExampleRenders(<<TwoCheckDb, ThreeCheckNetwork>>)

C6_Witness == \E c \in ReturnedInvestigations : IsExampleCall(args[c])

DocumentAlone(a) ==
    IF a.kind = "investigation" THEN InvestigationDocument(a)
    ELSE JoinLines(PlanApprovalLines(a.plan[1], a.query))

\* every call that has returned has returned the document of a run alone
EachReturnsItsOwnDocument ==
    \A c \in DOMAIN pc : pc[c] = "done" => returned[c] = <<DocumentAlone(args[c])>>

\* C8: under every interleaving of the steps of concurrent calls on one
\* instance each call returns the document it returns when run alone, and no
\* step changes the instance's field llm_provider.
C8_ConcurrentCallsDoNotInterfere ==
    /\ []EachReturnsItsOwnDocument
    /\ [][llm_provider' = llm_provider]_vars

C8_Witness ==
    \E c, d \in DOMAIN pc :
        /\ c # d
        /\ pc[c] = "done" /\ args[c].kind = "investigation"
        /\ args[c].agent_results # << >>
        /\ pc[d] = "invoke"

(***************************************************************************)
(* C9                                                                      *)
(***************************************************************************)
\* "**Auto-execute:** Yes"
AutoExecuteYes == <<"*","*","A","u","t","o","-","e","x","e","c","u","t","e",":","*","*"," ","Y","e","s">>

\* "**Auto-execute:** No"
AutoExecuteNo == <<"*","*","A","u","t","o","-","e","x","e","c","u","t","e",":","*","*"," ","N","o">>

\* C9: a plan approval document always has Plan Details and then Available
\* Actions; it has Investigation Steps iff the plan has a non-empty steps
\* sequence, numbered 1..n in plan order; its auto-execute line reads Yes
\* when auto_execute is true and No when it is false or missing.
C9_PlanApprovalSections ==
    \A c \in ReturnedApprovals :
        LET lines == DocumentLines(c)
            plan == args[c].plan[1]
            has_steps == "steps" \in DOMAIN plan /\ Len(plan["steps"]) > 0
            auto == "auto_execute" \in DOMAIN plan /\ plan["auto_execute"]
            details == Places(lines, PlanDetailsHeading)
            actions == Places(lines, AvailableActionsHeading)
            steps_at == Places(lines, InvestigationStepsHeading)
        IN  /\ Cardinality(details) = 1 /\ Cardinality(actions) = 1
            /\ Min(details) < Min(actions)
            /\ (steps_at # {}) <=> has_steps
            /\ has_steps =>
                  /\ Min(steps_at) < Min(details)
                  /\ SectionBody(lines, Min(steps_at))
                       = [k \in 1..Len(plan["steps"]) |->
                             IntToStr(k) \o <<".", " ">> \o plan["steps"][k]]
            /\ Cardinality(Places(lines, AutoExecuteYes)) = (IF auto THEN 1 ELSE 0)
            /\ Cardinality(Places(lines, AutoExecuteNo)) = (IF auto THEN 0 ELSE 1)

C9_Witness ==
    \E c \in ReturnedApprovals :
        /\ DOMAIN args[c].plan[1] = {"complexity"}
        /\ Places(DocumentLines(c), AutoExecuteNo) # {}
        /\ Places(DocumentLines(c), InvestigationStepsHeading) = {}

(***************************************************************************)
(* C10                                                                     *)
(***************************************************************************)
\* C10: a call invokes the LLM at most once; not at all when agent_results
\* is empty, the summary then empty and no summary section emitted; a failed
\* invocation is followed by the fallback summary with no second invocation;
\* an invocation carries two messages, the system message and then the user
\* message.
C10_AtMostOneInvocation ==
    \A c \in DOMAIN pc :
        /\ Len(invoked[c]) <= 1
        /\ \A k \in 1..Len(invoked[c]) :
              /\ Len(invoked[c][k]) = 2
              /\ invoked[c][k][1].role = "system"
              /\ invoked[c][k][2].role = "user"
        /\ (args[c].kind = "investigation" /\ args[c].agent_results = << >>) =>
              /\ Len(invoked[c]) = 0
              /\ frame[c].executive_summary = << >>
              /\ pc[c] = "done" =>
                    DocumentLines(c)[5] \in {NextStepsHeading, CompleteHeading}
        /\ (collab = "invoke_raises" /\ pc[c] \in {"assemble", "done"}
            /\ args[c].agent_results # << >>) =>
              /\ Len(invoked[c]) = 1
              /\ frame[c].executive_summary = FallbackSummary

C10_Witness ==
    \E c \in ReturnedInvestigations :
        /\ collab = "invoke_raises"
        /\ Len(invoked[c]) = 1
        /\ args[c].agent_results # << >>

====
